---- MODULE Spec2Model ----
(***************************************************************************)
(* A model of detect_layout (src/Layout_detection.py): one run over one    *)
(* input PDF, producing an annotated PDF and a JSON layout report.         *)
(*                                                                         *)
(* Strings are sequences of one-character strings, so that str.split,      *)
(* str.strip and concatenation are computed rather than assumed.           *)
(* Library results (pdfplumber's page.extract_text(), page.chars, ...; the *)
(* file system under os.makedirs and Document.save) are inputs of the run: *)
(* they are fixed by Init and read by the actions.                         *)
(***************************************************************************)
EXTENDS Integers, Sequences, FiniteSets

VARIABLES
    pdf,        \* the input document: per page, what pdfplumber extracts
    fault,      \* the library call that raises in this run, if any
    dirs,       \* the directories that exist
    made,       \* the directories this run has created
    jsonDir,    \* os.path.dirname(output_json_path)
    pdfDir,     \* the parent directory of output_pdf_path
    pc,         \* position of detect_layout
    i,          \* the page loop's index (0-based, as enumerate gives it)
    results,    \* results["pages"]
    doc,        \* pdf_document: per page, the rectangles drawn on it
    pdfOpen,    \* the pdfplumber handle is open
    fitzOpen,   \* the PyMuPDF handle is open
    outPdf,     \* the annotated PDF on disk: <<>> or <<pages>>
    outJson     \* the JSON report on disk: <<>> or <<pages>>

vars == <<pdf, fault, dirs, made, jsonDir, pdfDir, pc, i, results, doc,
          pdfOpen, fitzOpen, outPdf, outJson>>

-----------------------------------------------------------------------------
(* Bounds of the model *)

MaxPages == 2
MaxChars == 4

-----------------------------------------------------------------------------
(* Python string operations *)

Whitespace == {" ", "\n"}

RECURSIVE LStrip(_)
LStrip(s) ==
    IF s = <<>> THEN <<>>
    ELSE IF Head(s) \in Whitespace THEN LStrip(Tail(s))
    ELSE s

RECURSIVE RStrip(_)
RStrip(s) ==
    IF s = <<>> THEN <<>>
    ELSE IF s[Len(s)] \in Whitespace THEN RStrip(SubSeq(s, 1, Len(s) - 1))
    ELSE s

\* str.strip()
Strip(s) == RStrip(LStrip(s))

\* text.split("\n")[0]
RECURSIVE SplitFirst(_)
SplitFirst(s) ==
    IF s = <<>> THEN <<>>
    ELSE IF Head(s) = "\n" THEN <<>>
    ELSE <<Head(s)>> \o SplitFirst(Tail(s))

\* first_line = text.split("\n")[0] if text else ""
FirstLine(text) == IF text # <<>> THEN SplitFirst(text) ELSE <<>>

-----------------------------------------------------------------------------
(* The grouping of a page's characters by font size *)

\* words_with_font_sizes is an OrderedDict: a sequence of [size, words]
\* entries in insertion order, one per key.
HasKey(d, size) == \E k \in 1..Len(d) : d[k].size = size

\* if size not in d: d[size] = [] ; d[size].append(word)
AddWord(d, size, word) ==
    IF HasKey(d, size)
    THEN [k \in 1..Len(d) |->
            IF d[k].size = size
            THEN [d[k] EXCEPT !.words = Append(@, word)]
            ELSE d[k]]
    ELSE Append(d, [size |-> size, words |-> <<word>>])

\* current_font_size is None: <<>> ; otherwise <<size>>
NoSize == <<>>

\* the locals before the character loop; text holds page.extract_text()
GroupInit(text) ==
    [words_with_font_sizes |-> <<>>,
     current_word          |-> <<>>,
     current_font_size     |-> NoSize,
     text                  |-> text]

\* a new run that loses its first character
NewWord_Empty(text) == <<>>

\* current_word = text
NewWord(text) == <<text>>

\* one iteration of "for char in chars"
GroupStep(st, char) ==
    LET font_size == char.size
        text      == char.text
    IN  IF st.current_font_size = NoSize \/ st.current_font_size = <<font_size>>
        THEN [st EXCEPT !.current_word      = Append(@, text),
                        !.current_font_size = <<font_size>>,
                        !.text              = <<text>>]
        ELSE [words_with_font_sizes |->
                  AddWord(st.words_with_font_sizes, st.current_font_size[1],
                          Strip(st.current_word)),
              current_word      |-> NewWord(text),
              current_font_size |-> <<font_size>>,
              text              |-> <<text>>]

RECURSIVE GroupLoop(_, _)
GroupLoop(st, chars) ==
    IF chars = <<>> THEN st
    ELSE GroupLoop(GroupStep(st, Head(chars)), Tail(chars))

\* the trailing run forgotten
FlushLast_Dropped(st) == st

\* "Add the last word if it's not empty"
FlushLast(st) ==
    IF st.current_word # <<>>
    THEN [st EXCEPT !.words_with_font_sizes =
                        AddWord(@, st.current_font_size[1], Strip(st.current_word))]
    ELSE st

\* f"Size: {size}"
SizeKey(size) == <<"Size: ", size>>

\* the dict comprehension of page_data["words_with_font_sizes"]
KeyedWords(d) ==
    [k \in 1..Len(d) |-> [key |-> SizeKey(d[k].size), words |-> d[k].words]]

\* the page number taken for the loop index
PageNumber_ZeroBased(idx) == idx

\* "page_number": i + 1
PageNumber(idx) == idx + 1

\* page_data for the page at index idx
PageData(idx, page) ==
    LET first_line == FirstLine(page.text)
        st         == FlushLast(GroupLoop(GroupInit(page.text), page.chars))
    IN  [page_number  |-> PageNumber(idx),
         title        |-> Strip(first_line),
         text         |-> st.text,
         tables_count |-> Len(page.tables),
         images_count |-> Len(page.images),
         lines_count  |-> Len(page.lines),
         words_with_font_sizes |-> KeyedWords(st.words_with_font_sizes)]

-----------------------------------------------------------------------------
(* The rectangles of one page *)

RectsOf(kind, idx, n) == [k \in 1..n |-> [kind |-> kind, page |-> idx + 1, elem |-> k]]

ImageRects(idx, page) == RectsOf("image", idx, Len(page.images))

\* page.find_tables(): a second table detection, apart from extract_tables()
TableRects(idx, page) == RectsOf("table", idx, Len(page.found))

CharRects(idx, page) == RectsOf("char", idx, Len(page.chars))

\* every page's rectangles drawn on the first page
TargetPage_First(idx) == 1

\* pdf_page = pdf_document[i]
TargetPage(idx) == idx + 1

-----------------------------------------------------------------------------
(* The inputs *)

CharTexts == {"a", "b", " "}
FontSizes == {10, 12}
CharRecs  == [text : CharTexts, size : FontSizes]

SeqsUpTo(S, n) == UNION {[1..k -> S] : k \in 0..n}

\* pages of every character sequence up to MaxChars
WidePages ==
    [text   : {<<>>, <<" ", "a", " ", "\n", "b">>},
     tables : {<<>>},
     found  : {<<>>},
     images : {<<>>},
     lines  : {<<>>},
     chars  : SeqsUpTo(CharRecs, MaxChars)]

BlankPage ==
    [text |-> <<>>, tables |-> <<>>, found |-> <<>>, images |-> <<>>,
     lines |-> <<>>, chars |-> <<>>]

SpacePage ==
    [text |-> <<>>, tables |-> <<>>, found |-> <<>>, images |-> <<"img">>,
     lines |-> <<>>, chars |-> <<[text |-> " ", size |-> 10]>>]

TextPage ==
    [text |-> <<"a", " ", "\n", "b">>, tables |-> <<>>, found |-> <<>>,
     images |-> <<>>, lines |-> <<"ln">>,
     chars |-> <<[text |-> "a", size |-> 12], [text |-> " ", size |-> 12],
                 [text |-> "b", size |-> 10]>>]

TablePage ==
    [text |-> <<"a">>, tables |-> <<"tbl">>, found |-> <<"tbl", "tbl">>,
     images |-> <<"img">>, lines |-> <<"ln", "ln">>,
     chars |-> <<[text |-> "a", size |-> 10]>>]

SamplePages == {BlankPage, SpacePage, TextPage, TablePage}

Root == <<>>
AllDirs  == {Root, <<"out">>, <<"out", "sub">>, <<"pdf">>}
JsonDirs == {Root, <<"out">>, <<"out", "sub">>}
PdfDirs  == {Root, <<"out">>, <<"pdf">>}

Prefixes(d) == {SubSeq(d, 1, k) : k \in 0..Len(d)}

IsPrefix(d, e) == d \in Prefixes(e)

DirStates ==
    {D \in SUBSET AllDirs : Root \in D /\ \A d \in D : Prefixes(d) \subseteq D}

Faults(n) ==
    {[kind |-> k, page |-> 0] : k \in {"none", "open_pdf", "open_fitz", "json"}}
    \cup {[kind |-> k, page |-> p] : k \in {"extract", "annotate"}, p \in 1..n}

NoFault == [kind |-> "none", page |-> 0]

Start ==
    /\ pc = "makedirs"
    /\ made = {}
    /\ i = 0
    /\ results = <<>>
    /\ doc = <<>>
    /\ pdfOpen = FALSE
    /\ fitzOpen = FALSE
    /\ outPdf = <<>>
    /\ outJson = <<>>

Init ==
    /\ pdf \in SeqsUpTo(SamplePages, MaxPages)
    /\ fault \in Faults(Len(pdf))
    /\ dirs \in DirStates
    /\ jsonDir \in JsonDirs
    /\ pdfDir \in PdfDirs
    /\ Start

InitGroup ==
    /\ pdf \in [1..1 -> WidePages]
    /\ fault = NoFault
    /\ dirs = AllDirs
    /\ jsonDir = <<"out">>
    /\ pdfDir = <<"out">>
    /\ Start

-----------------------------------------------------------------------------
(* The steps of detect_layout *)

\* the exception leaves the function; a "with" block it crosses closes pdf
Raise(inWith) ==
    /\ pc' = "failed"
    /\ pdfOpen' = IF inWith THEN FALSE ELSE pdfOpen

\* both parent directories created
MakeDirs_AlsoPdfDir ==
    /\ pc = "makedirs"
    /\ jsonDir # Root
    /\ dirs' = dirs \cup Prefixes(jsonDir) \cup Prefixes(pdfDir)
    /\ made' = (Prefixes(jsonDir) \cup Prefixes(pdfDir)) \ dirs
    /\ pc' = "open_pdf"
    /\ UNCHANGED <<pdf, fault, jsonDir, pdfDir, i, results, doc, pdfOpen,
                   fitzOpen, outPdf, outJson>>

\* os.makedirs(os.path.dirname(output_json_path), exist_ok=True)
MakeDirs ==
    /\ pc = "makedirs"
    /\ jsonDir # Root
    /\ dirs' = dirs \cup Prefixes(jsonDir)
    /\ made' = Prefixes(jsonDir) \ dirs
    /\ pc' = "open_pdf"
    /\ UNCHANGED <<pdf, fault, jsonDir, pdfDir, i, results, doc, pdfOpen,
                   fitzOpen, outPdf, outJson>>

\* os.makedirs("") raises FileNotFoundError
FailMakeDirs ==
    /\ pc = "makedirs"
    /\ jsonDir = Root
    /\ Raise(FALSE)
    /\ UNCHANGED <<pdf, fault, dirs, made, jsonDir, pdfDir, i, results, doc,
                   fitzOpen, outPdf, outJson>>

\* with pdfplumber.open(pdf_path) as pdf:
OpenPdf ==
    /\ pc = "open_pdf"
    /\ fault.kind # "open_pdf"
    /\ pdfOpen' = TRUE
    /\ pc' = "open_fitz"
    /\ UNCHANGED <<pdf, fault, dirs, made, jsonDir, pdfDir, i, results, doc,
                   fitzOpen, outPdf, outJson>>

FailOpenPdf ==
    /\ pc = "open_pdf"
    /\ fault.kind = "open_pdf"
    /\ Raise(FALSE)
    /\ UNCHANGED <<pdf, fault, dirs, made, jsonDir, pdfDir, i, results, doc,
                   fitzOpen, outPdf, outJson>>

\* pdf_document = fitz.open(pdf_path)
OpenFitz ==
    /\ pc = "open_fitz"
    /\ fault.kind # "open_fitz"
    /\ fitzOpen' = TRUE
    /\ doc' = [p \in 1..Len(pdf) |-> <<>>]
    /\ pc' = "loop"
    /\ UNCHANGED <<pdf, fault, dirs, made, jsonDir, pdfDir, i, results, pdfOpen,
                   outPdf, outJson>>

FailOpenFitz ==
    /\ pc = "open_fitz"
    /\ fault.kind = "open_fitz"
    /\ Raise(TRUE)
    /\ UNCHANGED <<pdf, fault, dirs, made, jsonDir, pdfDir, i, results, doc,
                   fitzOpen, outPdf, outJson>>

\* the extraction, the grouping and results["pages"].append(page_data)
ExtractPage ==
    /\ pc = "loop"
    /\ i < Len(pdf)
    /\ ~(fault.kind = "extract" /\ fault.page = i + 1)
    /\ results' = Append(results, PageData(i, pdf[i + 1]))
    /\ pc' = "annotate"
    /\ UNCHANGED <<pdf, fault, dirs, made, jsonDir, pdfDir, i, doc, pdfOpen,
                   fitzOpen, outPdf, outJson>>

\* one of the page's extraction calls raises
FailExtract ==
    /\ pc = "loop"
    /\ i < Len(pdf)
    /\ fault.kind = "extract" /\ fault.page = i + 1
    /\ Raise(TRUE)
    /\ UNCHANGED <<pdf, fault, dirs, made, jsonDir, pdfDir, i, results, doc,
                   fitzOpen, outPdf, outJson>>

\* the three drawing loops on pdf_document[i]
AnnotatePage ==
    /\ pc = "annotate"
    /\ ~(fault.kind = "annotate" /\ fault.page = i + 1)
    /\ doc' = [doc EXCEPT ![TargetPage(i)] =
                   @ \o ImageRects(i, pdf[i + 1]) \o TableRects(i, pdf[i + 1])
                     \o CharRects(i, pdf[i + 1])]
    /\ i' = i + 1
    /\ pc' = "loop"
    /\ UNCHANGED <<pdf, fault, dirs, made, jsonDir, pdfDir, results, pdfOpen,
                   fitzOpen, outPdf, outJson>>

\* page.find_tables() raises, after the image rectangles were drawn
FailAnnotate ==
    /\ pc = "annotate"
    /\ fault.kind = "annotate" /\ fault.page = i + 1
    /\ doc' = [doc EXCEPT ![TargetPage(i)] = @ \o ImageRects(i, pdf[i + 1])]
    /\ Raise(TRUE)
    /\ UNCHANGED <<pdf, fault, dirs, made, jsonDir, pdfDir, i, results, fitzOpen,
                   outPdf, outJson>>

\* Document.save writes the file when its directory exists and the document
\* has a page (PyMuPDF: "cannot save with zero pages")
CanSave == pdfDir \in dirs /\ Len(doc) >= 1

\* pdf_document.save(output_pdf_path), after the last page
SavePdf ==
    /\ pc = "loop"
    /\ i = Len(pdf)
    /\ CanSave
    /\ outPdf' = <<doc>>
    /\ pc' = "exit_with"
    /\ UNCHANGED <<pdf, fault, dirs, made, jsonDir, pdfDir, i, results, doc,
                   pdfOpen, fitzOpen, outJson>>

\* a failed save that lets the run go on
FailSave_Swallowed ==
    /\ pc = "loop"
    /\ i = Len(pdf)
    /\ ~CanSave
    /\ pc' = "exit_with"
    /\ UNCHANGED <<pdf, fault, dirs, made, jsonDir, pdfDir, i, results, doc,
                   pdfOpen, fitzOpen, outPdf, outJson>>

\* pdf_document.save raises
FailSave ==
    /\ pc = "loop"
    /\ i = Len(pdf)
    /\ ~CanSave
    /\ Raise(TRUE)
    /\ UNCHANGED <<pdf, fault, dirs, made, jsonDir, pdfDir, i, results, doc,
                   fitzOpen, outPdf, outJson>>

\* the end of the "with" block closes the pdfplumber handle
ClosePdf ==
    /\ pc = "exit_with"
    /\ pdfOpen' = FALSE
    /\ pc' = "write_json"
    /\ UNCHANGED <<pdf, fault, dirs, made, jsonDir, pdfDir, i, results, doc,
                   fitzOpen, outPdf, outJson>>

\* with open(output_json_path, 'w') as json_file: json.dump(results, ...)
WriteJson ==
    /\ pc = "write_json"
    /\ fault.kind # "json"
    /\ outJson' = <<results>>
    /\ pc' = "done"
    /\ UNCHANGED <<pdf, fault, dirs, made, jsonDir, pdfDir, i, results, doc,
                   pdfOpen, fitzOpen, outPdf>>

FailWriteJson ==
    /\ pc = "write_json"
    /\ fault.kind = "json"
    /\ Raise(FALSE)
    /\ UNCHANGED <<pdf, fault, dirs, made, jsonDir, pdfDir, i, results, doc,
                   fitzOpen, outPdf, outJson>>

\* pdf_document is never closed by detect_layout: its handle goes only if
\* the interpreter finalizes the object after the function has been left
Finalize ==
    /\ pc \in {"done", "failed"}
    /\ fitzOpen
    /\ fitzOpen' = FALSE
    /\ UNCHANGED <<pdf, fault, dirs, made, jsonDir, pdfDir, pc, i, results, doc,
                   pdfOpen, outPdf, outJson>>

Next ==
    \/ MakeDirs
    \/ FailMakeDirs
    \/ OpenPdf
    \/ FailOpenPdf
    \/ OpenFitz
    \/ FailOpenFitz
    \/ ExtractPage
    \/ FailExtract
    \/ AnnotatePage
    \/ FailAnnotate
    \/ SavePdf
    \/ FailSave
    \/ ClosePdf
    \/ WriteJson
    \/ FailWriteJson
    \/ Finalize

Spec == Init /\ [][Next]_vars

\* a run on a one-page document in a sound environment
NextGroup ==
    \/ MakeDirs
    \/ OpenPdf
    \/ OpenFitz
    \/ ExtractPage
    \/ AnnotatePage
    \/ SavePdf
    \/ ClosePdf
    \/ WriteJson
    \/ Finalize

SpecGroup == InitGroup /\ [][NextGroup]_vars

-----------------------------------------------------------------------------
(* The runs of a page, stated from the character sequence alone *)

Reported == 1..Len(results)

\* the positions where a maximal block of equal font size starts
BlockStarts(chars) ==
    {s \in 1..Len(chars) : s = 1 \/ chars[s - 1].size # chars[s].size}

\* the last position of the block that starts at s
BlockEnd(chars, s) ==
    CHOOSE e \in s..Len(chars) :
        /\ e = Len(chars) \/ chars[e + 1].size # chars[e].size
        /\ \A j \in s..e : chars[j].size = chars[s].size

\* the concatenated text of the block that starts at s
BlockText(chars, s) ==
    [j \in 1..(BlockEnd(chars, s) - s + 1) |-> chars[s + j - 1].text]

StartsOfSize(chars, z) == {s \in BlockStarts(chars) : chars[s].size = z}

\* the n-th smallest element of a set of positions
NthStart(S, n) == CHOOSE s \in S : Cardinality({t \in S : t <= s}) = n

\* w without its leading and trailing whitespace
Trim(w) ==
    LET keep == {j \in 1..Len(w) : w[j] \notin Whitespace}
    IN  IF keep = {} THEN <<>>
        ELSE SubSeq(w, CHOOSE a \in keep : \A b \in keep : a <= b,
                       CHOOSE a \in keep : \A b \in keep : a >= b)

\* the words reported under the key of font size z
Bucket(pd, z) ==
    LET d  == pd.words_with_font_sizes
        ks == {k \in 1..Len(d) : d[k].key = <<"Size: ", z>>}
    IN  IF ks = {} THEN <<>> ELSE d[CHOOSE k \in ks : TRUE].words

RECURSIVE SumLen(_)
SumLen(ws) == IF ws = <<>> THEN 0 ELSE Len(Head(ws)) + SumLen(Tail(ws))

RECURSIVE SumOver(_, _)
SumOver(d, k) ==
    IF k = 0 THEN 0 ELSE SumLen(d[k].words) + SumOver(d, k - 1)

\* the number of characters over all the words of a page result
TotalChars(pd) == SumOver(pd.words_with_font_sizes, Len(pd.words_with_font_sizes))

\* the number of words over all the buckets of a page result
RECURSIVE CountWords(_, _)
CountWords(d, k) == IF k = 0 THEN 0 ELSE Len(d[k].words) + CountWords(d, k - 1)

TotalWords(pd) == CountWords(pd.words_with_font_sizes, Len(pd.words_with_font_sizes))

\* the whitespace at the two ends of the blocks starting at positions <= s
RECURSIVE TrimmedUpTo(_, _)
TrimmedUpTo(chars, s) ==
    IF s = 0 THEN 0
    ELSE (IF s \in BlockStarts(chars)
          THEN Len(BlockText(chars, s)) - Len(Trim(BlockText(chars, s)))
          ELSE 0) + TrimmedUpTo(chars, s - 1)

-----------------------------------------------------------------------------
(* Claims *)

\* C1: the "text" field of every page result equals the page's extracted
\* text, whatever characters the page has.
C1_TextIsExtractedText ==
    \A k \in Reported : results[k].text = pdf[k].text

\* C2 (as stated): every word is exactly the concatenation of the text of
\* its run's characters, and the characters of all the words of a page are
\* as many as the page's characters, whitespace included.
C2_WordsKeepEveryChar ==
    \A k \in Reported :
        LET chars == pdf[k].chars
        IN  /\ TotalChars(results[k]) = Len(chars)
            /\ \A z \in FontSizes :
                 \A n \in 1..Len(Bucket(results[k], z)) :
                    \E s \in StartsOfSize(chars, z) :
                        Bucket(results[k], z)[n] = BlockText(chars, s)

\* C2 (amended): every word is the concatenation of the text of one run's
\* characters with the whitespace at its two ends removed, every run gives
\* a word, and the characters of all the words of a page are as many as the
\* page's characters less the whitespace removed at the ends of the runs.
C2_WordsAreTrimmedRuns ==
    \A k \in Reported :
        LET chars == pdf[k].chars
        IN  /\ TotalChars(results[k]) + TrimmedUpTo(chars, Len(chars)) = Len(chars)
            /\ \A z \in FontSizes :
                 /\ \A n \in 1..Len(Bucket(results[k], z)) :
                      \E s \in StartsOfSize(chars, z) :
                         Bucket(results[k], z)[n] = Trim(BlockText(chars, s))
                 /\ \A s \in StartsOfSize(chars, z) :
                      \E n \in 1..Len(Bucket(results[k], z)) :
                         Bucket(results[k], z)[n] = Trim(BlockText(chars, s))

\* a reported page with several runs, one of which loses whitespace
C2_Witness ==
    \E k \in Reported :
        /\ Cardinality(BlockStarts(pdf[k].chars)) >= 2
        /\ TrimmedUpTo(pdf[k].chars, Len(pdf[k].chars)) >= 1
        /\ TotalChars(results[k]) >= 2

C4_State ==
    /\ \A k \in Reported : results[k].page_number = k
    /\ Len(results) <= Len(pdf)
    /\ pc = "loop" => Len(results) = i
    /\ pc = "annotate" => Len(results) = i + 1
    /\ pc \in {"exit_with", "write_json", "done"} => Len(results) = Len(pdf)
    /\ outJson # <<>> =>
          /\ Len(outJson[1]) = Len(pdf)
          /\ \A k \in 1..Len(pdf) : outJson[1][k].page_number = k

C4_Step ==
    /\ Len(results') >= Len(results)
    /\ SubSeq(results', 1, Len(results)) = results

C4_PagesInOrder == [](C4_State) /\ [][C4_Step]_vars

\* a completed run over more than one page
C4_Witness == pc = "done" /\ Len(pdf) >= 2 /\ outJson = <<results>>

\* C5: the annotated document has the input's page count; page p carries
\* images_count + found tables + characters rectangles once it is
\* annotated, all of them of page p.
C5_PageRects(pages, p) ==
    /\ Len(pages[p]) =
           results[p].images_count + Len(pdf[p].found) + Len(pdf[p].chars)
    /\ \A r \in 1..Len(pages[p]) : pages[p][r].page = p

C5_RectangleCounts ==
    /\ fitzOpen => Len(doc) = Len(pdf)
    /\ \A p \in 1..Len(doc) :
          /\ \A r \in 1..Len(doc[p]) : doc[p][r].page = p
          /\ p <= i => C5_PageRects(doc, p)
          /\ p > i + 1 => doc[p] = <<>>
    /\ outPdf # <<>> =>
          /\ Len(outPdf[1]) = Len(pdf)
          /\ \A p \in 1..Len(pdf) : C5_PageRects(outPdf[1], p)

\* a saved document of two pages whose second page carries rectangles of
\* all three kinds
C5_Witness ==
    /\ outPdf # <<>>
    /\ Len(pdf) >= 2
    /\ {outPdf[1][2][r].kind : r \in 1..Len(outPdf[1][2])} = {"image", "table", "char"}
    /\ Len(pdf[2].found) # Len(pdf[2].tables)
    /\ outPdf[1][1] # <<>>

\* C6: the JSON report is written only after every page is processed and the
\* annotated PDF is saved; a run that fails at a page or at the save has
\* written no JSON report.
C6_JsonLast ==
    /\ outJson # <<>> =>
          /\ outPdf # <<>>
          /\ i = Len(pdf)
          /\ Len(results) = Len(pdf)
          /\ ~pdfOpen
    /\ (pc = "failed" /\ fault.kind # "json") => outJson = <<>>
    /\ outPdf = <<>> => outJson = <<>>

\* a run that failed at the save after all its pages were processed
C6_Witness ==
    /\ pc = "failed"
    /\ fault = NoFault
    /\ Len(pdf) >= 1
    /\ i = Len(pdf)
    /\ Len(results) = Len(pdf)
    /\ outPdf = <<>>

\* C7: a page whose extracted text is empty is reported with an empty title
\* and an empty text, whatever characters it has.
C7_EmptyTextPage ==
    \A k \in Reported :
        pdf[k].text = <<>> => results[k].title = <<>> /\ results[k].text = <<>>

\* C8 (as stated): a completed run has produced both files; the JSON parent
\* directory exists before any page is processed; the run never creates the
\* PDF parent directory when it differs from the JSON one.
C8_NeverMakesPdfDir ==
    /\ pc = "done" => outPdf # <<>> /\ outJson # <<>>
    /\ pc \notin {"makedirs", "failed"} => jsonDir \in dirs
    /\ results # <<>> => jsonDir \in dirs
    /\ pdfDir # jsonDir => pdfDir \notin made

\* C8 (amended): a completed run has produced both files; the JSON parent
\* directory exists before any page is processed; the run creates the PDF
\* parent directory only when it is the JSON parent directory or one of its
\* ancestors, and a run whose PDF parent directory does not exist saves no
\* PDF and does not complete.
C8_MakesOnlyJsonDirPath ==
    /\ pc = "done" => outPdf # <<>> /\ outJson # <<>>
    /\ pc \notin {"makedirs", "failed"} => jsonDir \in dirs
    /\ results # <<>> => jsonDir \in dirs
    /\ made \subseteq Prefixes(jsonDir)
    /\ ~IsPrefix(pdfDir, jsonDir) => pdfDir \notin made
    /\ pdfDir \notin dirs => outPdf = <<>> /\ pc # "done"
    /\ (pc = "loop" /\ i = Len(pdf) /\ pdfDir \notin dirs) => ~ENABLED SavePdf

\* a run that created the JSON parent directory and then failed at the save
\* because nothing created the PDF parent directory
C8_Witness ==
    /\ jsonDir \in made
    /\ pdfDir \notin dirs
    /\ pc = "failed"
    /\ fault = NoFault
    /\ i = Len(pdf)
    /\ Len(pdf) >= 1

\* C9: a page without any extractable element is reported with zero counts
\* and an empty mapping, and a run over a document of such pages, or of no
\* page at all, raises no fault when nothing else fails.
C9_EmptyInputsNoFault ==
    /\ \A k \in Reported :
          pdf[k] = BlankPage =>
              /\ results[k].tables_count = 0
              /\ results[k].images_count = 0
              /\ results[k].lines_count = 0
              /\ results[k].words_with_font_sizes = <<>>
    /\ ( /\ \A k \in 1..Len(pdf) : pdf[k] = BlankPage
         /\ fault = NoFault
         /\ jsonDir # Root
         /\ pdfDir \in dirs ) => pc # "failed"

\* C10: both handles are open during the page loop, and neither is open once
\* detect_layout has returned or has raised.
C10_HandlesReleased ==
    /\ pc \in {"loop", "annotate"} => pdfOpen /\ fitzOpen
    /\ pc \in {"done", "failed"} => ~pdfOpen /\ ~fitzOpen

====
